---- MODULE Spec2Model ----
(***************************************************************************)
(* EpiVirus: the discrete-time SEIRD simulation engine as documented in    *)
(* README.md ("Algorithms & Data Structures"), the statistics derived from *)
(* its history, and the client code that consumes the history series.      *)
(*                                                                         *)
(* Spec      the engine: one run of SEIRD_Simulation over a small graph.   *)
(* SpecREff  ComputeREffective applied to bounded lineages.                *)
(***************************************************************************)
EXTENDS Integers, FiniteSets, Sequences, Bags, TLC

\* ------------------------------------------------------------------ bounds
PopulationSize == 3
MaxDays == 3
MaxDelay == 1
MaxDoses == 1
MaxWane == 0
REffSlack == 2
MinPopulation == 3
MaxPopulation == 4
RingK == 2
MaxM == 1
NBlocks == 2
MaxGroups == 2
CommunityDistance == 2
MaxSims == 2
MaxValue == 1
MaxFrames == 4
MaxClock == 2
MaxInterventions == 2
MaxInFlight == 2

\* ------------------------------------------------------ engine vocabulary
Nodes == 1..PopulationSize
NoNode == 0
NoDay == -1
Counted == {"S", "E", "I", "R", "D"}
StateKeys == Counted \cup {"V"}
Delays == {0, MaxDelay}

VARIABLES
    n_seed,            \* n_seed_infections
    beta,              \* 0: p_transmit is 0 on every edge; 1: 0 < p_transmit < 1
    vax_start,         \* first day of the vaccination directive, NoDay if none
    vax_end,           \* last day of the vaccination directive
    vax_doses,         \* vaccination_rate x N
    wane_after,        \* protection falls below 0.5 this many days after the dose
    lock_start,        \* start_day of the lockdown directive, NoDay if none
    lock_end,          \* end_day of the lockdown directive
    edge_weight,       \* the weight stored on each edge of G, as <<num, den>>
    states,            \* states[node]
    state_sets,        \* state_sets[key]: set of nodes
    transition_queue,  \* bag of <<day, node_id, new_state>>
    seed_nodes,        \* the nodes selected for seeding
    infection_tree,    \* infection_tree[infected_node] = infector_node
    infection_times,   \* infection_times[node] = day_infected
    infectious_times,  \* day the node became Infectious (its state entry day)
    vaccination_day,   \* vaccination_day[node]
    history,           \* sequence of per-day counts
    t,                 \* current day of the main loop
    pc,                \* position in the algorithm
    todo,              \* infectious nodes the transmission pass has not visited
    r_eff,             \* R_eff(t) as <<total_secondary, len(primary_cases)>>
    request,           \* build(population_size, topology, topology_params)
    build_pc,          \* position in build() and at the start of run()
    G,                 \* the graph under construction: nodes, edges -> edge_type
    rewire_next,       \* index of the next lattice edge of the rewiring loop
    error,             \* the error raised, NoError if none
    household_id,      \* node attribute household_id
    workplace_id,      \* node attribute workplace_id
    school_id,         \* node attribute school_id
    summary,           \* what SimulationSummary shows for the results
    currentSimulation, \* App state: simulation id, NoSim for null
    simulationStatus,  \* App state: simulationStatus?.status, "null" for null
    simulationResults, \* App state: the simulation whose results are held
    loading,           \* App state
    appError,          \* App state: error is set
    intervals,         \* the live setInterval timers, a bag of <<simulation, ms>>
    effect_interval,   \* the simulation polled by the interval the effect holds
    start_inflight,    \* responses of POST /api/simulation on their way
    status_inflight,   \* status responses on their way: <<simulation, status>>
    results_inflight,  \* results requests on their way
    server,            \* the service: status of each simulation, "none" if not created
    config_network,    \* SimulationConfig state: config.network
    openAdvancedSection, \* SimulationConfig state, "null" for null
    params,            \* AdvancedNetworkConfig state while it is mounted
    submitted,         \* config.network of the last onStartSimulation(config)
    viewer_mounted,    \* AnimationTab is mounted
    maxFrames,         \* AnimationTab: history.time.length
    currentFrame,      \* AnimationTab state
    isPlaying,         \* AnimationTab state
    playbackSpeed,     \* AnimationTab state, as frames per second (1000 / ms)
    play_intervals,    \* the live auto-play intervals, a bag of their speeds
    playIntervalRef,   \* the live interval playIntervalRef.current names
    interventions,     \* AdvancedInterventionBuilder state: the scheduled list
    custom_interventions, \* config.custom_interventions of SimulationConfig
    clock              \* what Date.now() returns, in milliseconds

config == <<n_seed, beta, vax_start, vax_end, vax_doses, wane_after, lock_start, lock_end>>
engine == <<n_seed, beta, vax_start, vax_end, vax_doses, wane_after,
            lock_start, lock_end, edge_weight,
            seed_nodes, states, state_sets, transition_queue, infection_tree,
            infection_times, infectious_times, vaccination_day, history, t, pc, todo, r_eff>>
builder == <<request, build_pc, G, rewire_next, error,
             household_id, workplace_id, school_id>>
app == <<currentSimulation, simulationStatus, simulationResults, loading, appError,
         intervals, effect_interval, start_inflight, status_inflight, results_inflight,
         server>>
form == <<config_network, openAdvancedSection, params, submitted>>
viewer == <<viewer_mounted, maxFrames, currentFrame, isPlaying, playbackSpeed,
            play_intervals, playIntervalRef>>
planner == <<interventions, custom_interventions, clock>>
ui == <<form, viewer, planner>>
client == <<summary, app, ui>>
vars == <<engine, builder, client>>

\* nothing was requested of the graph builder
NoError == "none"
NoRequest == [population_size |-> 0, topology |-> "none", p |-> 0, k |-> 0, m |-> 0,
              min_duration |-> 0]
EmptyGraph == [nodes |-> {}, edges |-> <<>>]
BuilderIdle ==
    /\ request = NoRequest
    /\ build_pc = "idle"
    /\ G = EmptyGraph
    /\ rewire_next = 0
    /\ error = NoError
    /\ household_id = <<>>
    /\ workplace_id = <<>>
    /\ school_id = <<>>

\* nothing was rendered by the client
NoSummary == <<>>
NoSim == 0
SimIds == 1..MaxSims
PollInterval == 2000

\* the fields of config.network edited in the main form and in the advanced
\* panel, and the values a field can take (0 is the initial one)
MainFields == {"population", "network_type"}
AdvancedFields == {"erdos_p", "watts_k"}
Fields == MainFields \cup AdvancedFields
Values == 0..MaxValue
NoParams == <<>>
FormIdle ==
    /\ config_network = [f \in Fields |-> 0]
    /\ openAdvancedSection = "null"
    /\ params = NoParams
    /\ submitted = NoParams

\* the playback speed buttons, in frames per second; 500 ms at first
Speeds == {1, 2, 3, 5, 7, 10}
InitialSpeed == 2
NoInterval == 0
ViewerIdle ==
    /\ viewer_mounted = FALSE
    /\ maxFrames = 0
    /\ currentFrame = 0
    /\ isPlaying = FALSE
    /\ playbackSpeed = InitialSpeed
    /\ play_intervals = EmptyBag
    /\ playIntervalRef = NoInterval

\* the parameters of an intervention that updateInterventionParam edits
ParamKeys == {"efficacy", "compliance"}
PlannerIdle ==
    /\ interventions = <<>>
    /\ custom_interventions = <<>>
    /\ clock = 0

ClientIdle ==
    /\ FormIdle
    /\ ViewerIdle
    /\ PlannerIdle
    /\ summary = NoSummary
    /\ currentSimulation = NoSim
    /\ simulationStatus = "null"
    /\ simulationResults = NoSim
    /\ loading = FALSE
    /\ appError = FALSE
    /\ intervals = EmptyBag
    /\ effect_interval = NoSim
    /\ start_inflight = {}
    /\ status_inflight = {}
    /\ results_inflight = {}
    /\ server = [id \in SimIds |-> "none"]

\* ------------------------------------------------------------------ graph
\* G: the chain 1 - 2 - ... - n, one of the graphs ER_Graph(n, p) returns.
\* Node 1 and node n have one neighbour, the others two.
Edges == {{i, i + 1} : i \in 1..(PopulationSize - 1)}

\* G.neighbors(i)
Neighbors(i) == {j \in Nodes : {i, j} \in Edges}

\* edge_type of the edges of G: the chain alternates household and workplace
\* contacts
EdgeLayer(e) == IF \E i \in e : i % 2 = 1 /\ (i + 1) \in e THEN "household" ELSE "workplace"

\* baseline_contacts: the edge weight per layer, in tenths
baseline_contacts ==
    [household |-> <<10, 10>>, workplace |-> <<6, 10>>,
     school |-> <<7, 10>>, community |-> <<3, 10>>]

\* lockdown_factors per layer, in tenths
lockdown_factors ==
    [household |-> <<10, 10>>, workplace |-> <<2, 10>>,
     school |-> <<0, 10>>, community |-> <<1, 10>>]

\* the weights of G as built
BuiltWeights == [e \in Edges |-> baseline_contacts[EdgeLayer(e)]]

\* no lockdown directive in the schedule
NoLockdown ==
    /\ lock_start = NoDay
    /\ lock_end = NoDay
    /\ edge_weight = BuiltWeights

\* age(v): node attribute used by the vaccination priority; distinct per node.
age(v) == 10 * v

\* --------------------------------------------------------- initialization
Init ==
    /\ n_seed \in 0..2
    /\ beta \in {0, 1}
    /\ vax_start \in {NoDay, 0, 1}
    /\ vax_end \in {vax_start, vax_start + 1}
    /\ vax_start = NoDay => vax_end = NoDay
    /\ vax_doses \in 1..MaxDoses
    /\ wane_after \in 0..MaxWane
    /\ vax_start = NoDay => (vax_doses = 1 /\ wane_after = 0)
    /\ NoLockdown
    /\ states = [n \in Nodes |-> "S"]
    /\ state_sets = [k \in StateKeys |-> IF k = "S" THEN Nodes ELSE {}]
    /\ transition_queue = EmptyBag
    /\ infection_tree = [n \in Nodes |-> NoNode]
    /\ seed_nodes = {}
    /\ infection_times = [n \in Nodes |-> NoDay]
    /\ infectious_times = [n \in Nodes |-> NoDay]
    /\ vaccination_day = [n \in Nodes |-> NoDay]
    /\ history = <<>>
    /\ t = 0
    /\ pc = "seed"
    /\ todo = {}
    /\ r_eff = <<0, 0>>
    /\ BuilderIdle
    /\ ClientIdle

\* ------------------------------------------------------------- sampling
\* sample_incubation_period / sample_infectious_period: a whole number of
\* days; the profile rejects only negative durations.
IncubationDelays == Delays
InfectiousDelays == Delays

\* a variant that draws with a positive probability whatever beta is
TransmissionDrawsAnyBeta(cand) == SUBSET cand

\* random() < p_transmit for each susceptible neighbour in cand: the sets of
\* neighbours for which the draw can succeed.
TransmissionDraws(cand) == IF beta = 0 THEN {{}} ELSE SUBSET cand

\* ------------------------------------------------------------ 2. seeding
SeedInfections ==
    /\ pc = "seed"
    /\ \E selected \in SUBSET Nodes :
         /\ Cardinality(selected) = n_seed
         /\ seed_nodes' = selected
         /\ \E inc \in [selected -> IncubationDelays] :
              /\ states' = [n \in Nodes |-> IF n \in selected THEN "E" ELSE states[n]]
              /\ state_sets' = [state_sets EXCEPT !["S"] = @ \ selected,
                                                  !["E"] = @ \cup selected]
              /\ infection_times' = [n \in Nodes |->
                                       IF n \in selected THEN 0 ELSE infection_times[n]]
              /\ transition_queue' = transition_queue (+)
                                       SetToBag({<<0 + inc[s], s, "I">> : s \in selected})
    /\ pc' = "transmission"
    /\ todo' = state_sets'["I"]
    /\ UNCHANGED <<client, builder, config, edge_weight, r_eff, infectious_times, infection_tree, vaccination_day, history, t>>

\* ------------------------------------------- 3a. process transmission
\* One infectious node i of the pass: every neighbour j with states[j] = 'S'
\* gets one draw.
TransmitFrom(i) ==
    LET cand == {j \in Neighbors(i) : states[j] = "S"} IN
    \E infected \in TransmissionDraws(cand) :
    \E inc \in [infected -> IncubationDelays] :
        /\ states' = [n \in Nodes |-> IF n \in infected THEN "E" ELSE states[n]]
        /\ state_sets' = [state_sets EXCEPT !["S"] = @ \ infected,
                                            !["E"] = @ \cup infected]
        /\ infection_tree' = [n \in Nodes |->
                                IF n \in infected THEN i ELSE infection_tree[n]]
        /\ infection_times' = [n \in Nodes |->
                                 IF n \in infected THEN t ELSE infection_times[n]]
        /\ transition_queue' = transition_queue (+)
                                 SetToBag({<<t + inc[j], j, "I">> : j \in infected})

ProcessTransmission ==
    /\ pc = "transmission"
    /\ todo # {}
    /\ \E i \in todo :
         /\ TransmitFrom(i)
         /\ todo' = todo \ {i}
    /\ UNCHANGED <<client, builder, config, seed_nodes, edge_weight, r_eff, infectious_times, vaccination_day, history, t, pc>>

EndTransmission ==
    /\ pc = "transmission"
    /\ todo = {}
    /\ pc' = "transitions"
    /\ UNCHANGED <<client, builder, config, seed_nodes, edge_weight, r_eff, infectious_times, states, state_sets, transition_queue, infection_tree,
                   infection_times, vaccination_day, history, t, todo>>

\* ------------------------------------- 3b. process state transitions
StateRank(s) == CASE s = "D" -> 0 [] s = "E" -> 1 [] s = "I" -> 2
                  [] s = "R" -> 3 [] s = "S" -> 4 [] OTHER -> 5

\* tuple order of the min-heap: (day, node_id, new_state)
Before(a, b) ==
    \/ a[1] < b[1]
    \/ a[1] = b[1] /\ a[2] < b[2]
    \/ a[1] = b[1] /\ a[2] = b[2] /\ StateRank(a[3]) < StateRank(b[3])

\* transition_queue[0]
HeapTop(q) == CHOOSE e \in BagToSet(q) : \A f \in BagToSet(q) : f = e \/ Before(e, f)

\* state_sets[old_state].remove(node); state_sets[new_state].add(node)
MoveSets(sets, node, old_state, new_state) ==
    [sets EXCEPT ![old_state] = @ \ {node}, ![new_state] = @ \cup {node}]

\* transition_queue and transition_queue[0][0] == current_day
TransitionDue == transition_queue # EmptyBag /\ HeapTop(transition_queue)[1] = t

ProcessTransition ==
    /\ pc = "transitions"
    /\ TransitionDue
    /\ LET e == HeapTop(transition_queue)
           node == e[2]
           new_state == e[3]
           old_state == states[node]
           popped == transition_queue (-) SetToBag({e})
       IN /\ states' = [states EXCEPT ![node] = new_state]
          /\ state_sets' = MoveSets(state_sets, node, old_state, new_state)
          /\ IF new_state = "I"
             THEN \E duration \in InfectiousDelays, outcome \in {"R", "D"} :
                     transition_queue' = popped (+) SetToBag({<<t + duration, node, outcome>>})
             ELSE transition_queue' = popped
          /\ infectious_times' = IF new_state = "I"
                                 THEN [infectious_times EXCEPT ![node] = t]
                                 ELSE infectious_times
    /\ UNCHANGED <<client, builder, config, seed_nodes, edge_weight, r_eff, infection_tree, infection_times, vaccination_day,
                   history, t, pc, todo>>

EndTransitions ==
    /\ pc = "transitions"
    /\ ~TransitionDue
    /\ pc' = "interventions"
    /\ UNCHANGED <<client, builder, config, seed_nodes, edge_weight, r_eff, infectious_times, states, state_sets, transition_queue, infection_tree,
                   infection_times, vaccination_day, history, t, todo>>

\* ---------------------------------------------- 3c. apply interventions
VaccinationActive == vax_start # NoDay /\ vax_start <= t /\ t <= vax_end

\* sorted(nodes, key=age, reverse=True)[0 : doses]
VaccinationPriority(doses) ==
    {v \in Nodes : Cardinality({u \in Nodes : age(u) > age(v)}) < doses}

\* interventions[t] contains 'lockdown'
LockdownActive == lock_start # NoDay /\ lock_start <= t /\ t <= lock_end

\* a product of two fractions
Times(x, y) == <<x[1] * y[1], x[2] * y[2]>>

\* Reduce edge weights proportionally: each edge by the factor of its layer
ReduceWeights(weights) ==
    [e \in DOMAIN weights |-> Times(weights[e], lockdown_factors[EdgeLayer(e)])]

\* the vaccinated nodes whose protection has fallen below 0.5 on day t
Waned(sets, vday) == {v \in sets["V"] : t - vday[v] > wane_after}

\* lockdown: the edge weights are reduced on every day of the directive.
\* states[node] = 'V' for each selected node; the node joins state_sets['V'],
\* the set the waning loop iterates. Then the waning loop:
\* move_to_susceptible(node) for every vaccinated node whose protection is gone.
ApplyInterventions ==
    /\ pc = "interventions"
    /\ LET vaccinated == IF VaccinationActive THEN VaccinationPriority(vax_doses) ELSE {}
           states1 == [n \in Nodes |-> IF n \in vaccinated THEN "V" ELSE states[n]]
           sets1 == [state_sets EXCEPT !["V"] = @ \cup vaccinated]
           vday1 == [n \in Nodes |-> IF n \in vaccinated THEN t ELSE vaccination_day[n]]
           waned == Waned(sets1, vday1)
       IN /\ states' = [n \in Nodes |-> IF n \in waned THEN "S" ELSE states1[n]]
          /\ state_sets' = [sets1 EXCEPT !["V"] = @ \ waned, !["S"] = @ \cup waned]
          /\ vaccination_day' = vday1
    /\ edge_weight' = IF LockdownActive THEN ReduceWeights(edge_weight) ELSE edge_weight
    /\ pc' = "record"
    /\ UNCHANGED <<client, builder, config, seed_nodes, r_eff, infectious_times, transition_queue, infection_tree, infection_times,
                   history, t, todo>>

\* ------------------------------ 3d. record statistics, 3e. termination
Snapshot(sets) == [k \in Counted |-> Cardinality(sets[k])]

\* a variant whose comparison never holds, so the break is never taken
NoMoreInfectiousNever == Cardinality(state_sets["E"]) + Cardinality(state_sets["I"]) < 0

\* len(state_sets['E']) + len(state_sets['I']) == 0
NoMoreInfectious == Cardinality(state_sets["E"]) + Cardinality(state_sets["I"]) = 0

\* a variant of the loop bound that runs one day more
LoopExhaustedLate == t >= MaxDays

\* Main Loop (t = 0 to T-1): day t was the last one
LoopExhausted == t + 1 >= MaxDays

\* a variant whose series keep the latest entry only
RecordKeepLast(h, snap) == <<snap>>

\* history[k].append(len(state_sets[k])) for each k
Record(h, snap) == Append(h, snap)

\* the day index series returned with the history: day[d] = d
time(h) == [i \in 1..Len(h) |-> i - 1]

RecordStatistics ==
    /\ pc = "record"
    /\ history' = Record(history, Snapshot(state_sets))
    /\ IF NoMoreInfectious \/ LoopExhausted
       THEN /\ pc' = "done"
            /\ UNCHANGED <<t, todo>>
       ELSE /\ pc' = "transmission"
            /\ t' = t + 1
            /\ todo' = state_sets["I"]
    /\ UNCHANGED <<client, builder, config, seed_nodes, edge_weight, r_eff, infectious_times, states, state_sets, transition_queue, infection_tree,
                   infection_times, vaccination_day>>

Next ==
    \/ SeedInfections
    \/ ProcessTransmission
    \/ EndTransmission
    \/ ProcessTransition
    \/ EndTransitions
    \/ ApplyInterventions
    \/ RecordStatistics

Spec == Init /\ [][Next]_vars

\* runs with a lockdown directive in the schedule and no vaccination
InitLockdown ==
    /\ n_seed = 1
    /\ beta \in {0, 1}
    /\ vax_start = NoDay /\ vax_end = NoDay /\ vax_doses = 1 /\ wane_after = 0
    /\ lock_start \in {0, 1}
    /\ lock_end \in {lock_start, lock_start + 1}
    /\ edge_weight = BuiltWeights
    /\ states = [n \in Nodes |-> "S"]
    /\ state_sets = [k \in StateKeys |-> IF k = "S" THEN Nodes ELSE {}]
    /\ transition_queue = EmptyBag
    /\ infection_tree = [n \in Nodes |-> NoNode]
    /\ seed_nodes = {}
    /\ infection_times = [n \in Nodes |-> NoDay]
    /\ infectious_times = [n \in Nodes |-> NoDay]
    /\ vaccination_day = [n \in Nodes |-> NoDay]
    /\ history = <<>>
    /\ t = 0
    /\ pc = "seed"
    /\ todo = {}
    /\ r_eff = <<0, 0>>
    /\ BuilderIdle
    /\ ClientIdle

SpecLockdown == InitLockdown /\ [][Next]_vars

\* every node is in the set its state names, so remove() always finds it
InStateSet == \A n \in Nodes : n \in state_sets[states[n]]

\* ------------------------------------------------- client: AttackRateChart
\* 'Attack Rate (%)': ((initialPop - s) / initialPop) * 100 with
\* initialPop = history.S[0]; kept as <<numerator, denominator>>.
AttackRateChart(h) == [i \in 1..Len(h) |-> <<(h[1]["S"] - h[i]["S"]) * 100, h[1]["S"]>>]

\* a/b <= c/d for b, d > 0
RatLeq(x, y) == x[1] * y[2] <= y[1] * x[2]

\* the nodes that have ever been infected (seeded or by transmission)
EverInfected == {n \in Nodes : infection_times[n] # NoDay}

\* --------------------------------------------- client: SimulationSummary
\* Math.max(...values) of a non-empty array
RECURSIVE MathMax(_)
MathMax(values) ==
    IF Len(values) = 1 THEN values[1]
    ELSE LET rest == MathMax(Tail(values))
         IN IF values[1] >= rest THEN values[1] ELSE rest

\* a variant that searches from the end of the array
RECURSIVE lastIndexOf(_, _)
lastIndexOf(values, x) ==
    IF Len(values) = 0 THEN -1
    ELSE IF values[Len(values)] = x THEN Len(values) - 1
         ELSE lastIndexOf(SubSeq(values, 1, Len(values) - 1), x)

\* values.indexOf(x): the first 0-based index of x, -1 if there is none
RECURSIVE indexOf(_, _)
indexOf(values, x) ==
    IF Len(values) = 0 THEN -1
    ELSE IF values[1] = x THEN 0
         ELSE LET rest == indexOf(Tail(values), x)
              IN IF rest = -1 THEN -1 ELSE rest + 1

\* (x).toFixed(1) of the percentage num / den * 100, in tenths of a percent
\* (rounded half up); a division by zero shows as NaN or Infinity
toFixed1(num, den) ==
    IF den = 0 THEN (IF num = 0 THEN "NaN" ELSE "Infinity")
    ELSE (2000 * num + den) \div (2 * den)

\* history.X as an array
Series(h, key) == [i \in 1..Len(h) |-> h[i][key]]

SimulationSummary(h) ==
    LET lastDay == Len(h) - 1
        peakInfections == MathMax(Series(h, "I"))
        peakDay == indexOf(Series(h, "I"), peakInfections)
        totalRecovered == h[lastDay + 1]["R"]
        totalDeaths == h[lastDay + 1]["D"]
        totalPopulation == h[1]["S"] + h[1]["I"] + h[1]["R"]
    IN [peakInfections |-> peakInfections,
        peakDay |-> peakDay,
        totalRecovered |-> totalRecovered,
        totalDeaths |-> totalDeaths,
        totalPopulation |-> totalPopulation,
        attackRate |-> toFixed1(totalRecovered + totalDeaths, totalPopulation),
        finalSusceptible |-> h[lastDay + 1]["S"]]

\* the results the summary is shown for: histories of 1 to MaxDays days over
\* PopulationSize nodes, Infectious and Recovered counts free
\* EpidemicCurveChart, DailyNewCasesBar: history.I.map((current, i) =>
\* Math.max(0, current - (i > 0 ? history.I[i - 1] : 0)))
dailyNew(h) ==
    [i \in 1..Len(h) |-> MathMax(<<0, h[i]["I"] - (IF i > 1 THEN h[i - 1]["I"] ELSE 0)>>)]

\* CumulativeStatsChart 'Total Infected': history.S[0] - history.S[i]
totalInfected(h) == [i \in 1..Len(h) |-> h[1]["S"] - h[i]["S"]]

RECURSIVE RunningSum(_, _, _)
RunningSum(values, from, to) ==
    IF to < from THEN 0 ELSE values[to] + RunningSum(values, from, to - 1)

SummaryInputs ==
    UNION {[1..len -> {c \in [Counted -> 0..PopulationSize] :
                         /\ c["E"] = 0 /\ c["D"] = 0
                         /\ c["S"] + c["I"] + c["R"] = PopulationSize}] :
           len \in 1..MaxDays}

InitSummary ==
    /\ n_seed = 0 /\ beta = 1 /\ vax_start = NoDay /\ vax_end = NoDay
    /\ vax_doses = 1 /\ wane_after = 0
    /\ NoLockdown
    /\ states = [n \in Nodes |-> "S"]
    /\ state_sets = [k \in StateKeys |-> IF k = "S" THEN Nodes ELSE {}]
    /\ transition_queue = EmptyBag
    /\ infection_tree = [n \in Nodes |-> NoNode]
    /\ seed_nodes = {}
    /\ infection_times = [n \in Nodes |-> NoDay]
    /\ infectious_times = [n \in Nodes |-> NoDay]
    /\ vaccination_day = [n \in Nodes |-> NoDay]
    /\ history \in SummaryInputs
    /\ t = 0
    /\ pc = "results"
    /\ todo = {}
    /\ r_eff = <<0, 0>>
    /\ BuilderIdle
    /\ ClientIdle

\* the component is rendered with the results
RenderSummary ==
    /\ pc = "results"
    /\ summary' = SimulationSummary(history)
    /\ pc' = "rendered"
    /\ UNCHANGED <<app, ui>>
    /\ UNCHANGED <<builder, config, seed_nodes, edge_weight, states, state_sets, transition_queue, infection_tree,
                   infection_times, infectious_times, vaccination_day, history, t, todo,
                   r_eff>>

SpecSummary == InitSummary /\ [][RenderSummary]_vars

\* ------------------------------------------------ ComputeREffective
Window == 7
\* the days a lineage handed to ComputeREffective spans
REffHorizon == Window + REffSlack

\* 1. primary_cases = [v for v in nodes if t - window <= infection_times[v] < t]
primary_cases(times, day, window) ==
    {v \in Nodes : times[v] # NoDay /\ day - window <= times[v] /\ times[v] < day}

\* count_infections_caused_by(v, infection_tree)
count_infections_caused_by(v, tree) == Cardinality({j \in Nodes : tree[j] = v})

\* 2. total_secondary: the loop over primary_cases
RECURSIVE TotalSecondary(_, _)
TotalSecondary(cases, tree) ==
    IF cases = {} THEN 0
    ELSE LET v == CHOOSE x \in cases : TRUE
         IN count_infections_caused_by(v, tree) + TotalSecondary(cases \ {v}, tree)

\* a variant that leaves the cases without secondary infections out
ComputeREffectiveSkipZero(times, tree, day, window) ==
    LET cases == {v \in primary_cases(times, day, window) :
                     count_infections_caused_by(v, tree) > 0}
    IN <<TotalSecondary(cases, tree), Cardinality(cases)>>

\* 3. R_eff(t) = total_secondary / len(primary_cases), kept as the pair
\* <<total_secondary, len(primary_cases)>>; a second component 0 is the
\* division by zero of an empty window.
ComputeREffective(times, tree, day, window) ==
    LET cases == primary_cases(times, day, window)
    IN <<TotalSecondary(cases, tree), Cardinality(cases)>>

\* A lineage the engine can hand to the statistics: a node becomes Infectious
\* on or after its infection day, and an infector was Infectious before the
\* day it infected somebody.
Lineage(times, onset, tree) ==
    \A n \in Nodes :
        /\ onset[n] # NoDay => (times[n] # NoDay /\ times[n] <= onset[n])
        /\ tree[n] # NoNode =>
              /\ times[n] # NoDay
              /\ onset[tree[n]] # NoDay
              /\ onset[tree[n]] < times[n]

\* Node ids are a naming only: the lineages are drawn with the nodes numbered
\* in the order of their infection, the never infected ones last, so an
\* infector has a smaller id than the node it infected.
InfectionOrder(times) ==
    \A n \in 1..(PopulationSize - 1) :
        \/ times[n + 1] = NoDay
        \/ (times[n] # NoDay /\ times[n] <= times[n + 1])

ParentMaps == {f \in [Nodes -> Nodes \cup {NoNode}] : \A n \in Nodes : f[n] < n}

InitREff ==
    /\ n_seed = 0 /\ beta = 1 /\ vax_start = NoDay /\ vax_end = NoDay
    /\ vax_doses = 1 /\ wane_after = 0
    /\ NoLockdown
    /\ states = [n \in Nodes |-> "S"]
    /\ state_sets = [k \in StateKeys |-> IF k = "S" THEN Nodes ELSE {}]
    /\ transition_queue = EmptyBag
    /\ vaccination_day = [n \in Nodes |-> NoDay]
    /\ history = <<>>
    /\ todo = {}
    /\ infection_times \in [Nodes -> {NoDay} \cup 0..REffHorizon]
    /\ InfectionOrder(infection_times)
    /\ \E incubation \in [Nodes -> {NoDay} \cup Delays] :
          infectious_times = [n \in Nodes |->
              IF infection_times[n] = NoDay \/ incubation[n] = NoDay
              THEN NoDay ELSE infection_times[n] + incubation[n]]
    /\ infection_tree \in ParentMaps
    /\ Lineage(infection_times, infectious_times, infection_tree)
    /\ seed_nodes = {n \in Nodes : infection_times[n] # NoDay /\ infection_tree[n] = NoNode}
    /\ t \in Window..REffHorizon
    /\ pc = "summarize"
    /\ r_eff = <<0, 0>>
    /\ BuilderIdle
    /\ ClientIdle

Summarize ==
    /\ pc = "summarize"
    /\ r_eff' = ComputeREffective(infection_times, infection_tree, t, Window)
    /\ pc' = "summarized"
    /\ UNCHANGED <<client, builder, config, seed_nodes, edge_weight, states, state_sets, transition_queue, infection_tree,
                   infection_times, infectious_times, vaccination_day, history,
                   t, todo>>

SpecREff == InitREff /\ [][Summarize]_vars

\* ============================================================ GraphBuilder
\* build(population_size, topology, topology_params): the generation
\* algorithms of README "Network Generation Algorithms" over G = nx.Graph(),
\* which stores one edge_data per unordered pair of neighbours. Nodes are
\* numbered 0 .. n-1 as in the algorithms.
NoType == "none"
EdgeTypes == {"household", "workplace", "school", "community"}
Topologies == {"erdos_renyi", "watts_strogatz", "barabasi_albert",
               "stochastic_block", "hybrid"}
Errors == {"InvalidParameterError", "CapacityExceededError", "InvalidDiseaseProfileError"}

\* the supported population range and the hard ceiling above it, scaled down
\* (Population size (100-10,000) in the program)
HardCeiling == MaxPopulation + 1

\* the requests a caller can make: population sizes inside and outside the
\* supported range, a probability parameter that is negative (-1), zero or
\* positive, ring degree k and attachment count m inside their domains; the
\* disease profile (its smallest duration parameter) comes with run().
\* The layered graph is built for the smallest supported population.
Requests ==
    {r \in [population_size : (MinPopulation - 1)..(HardCeiling + 1),
            topology : Topologies,
            p : {-1, 0, 1},
            k : {RingK},
            m : 1..MaxM,
            min_duration : {0}] :
        r.topology = "hybrid" => (r.population_size <= MinPopulation /\ r.p = 1)}


\* G.add_edge(i, j) with edge_data: the pair's entry is created or overwritten
add_edge(edges, i, j, edge_type) ==
    [e \in DOMAIN edges \cup {{i, j}} |-> IF e = {i, j} THEN edge_type ELSE edges[e]]

\* G.remove_edge(i, j)
remove_edge(edges, i, j) == [e \in DOMAIN edges \ {{i, j}} |-> edges[e]]

\* G.neighbors(i) in a graph under construction
neighbors(edges, nodes, i) == {v \in nodes : {i, v} \in DOMAIN edges}

\* the edges a set of pairs adds, all with one edge_type
add_edges(edges, new_edges, edge_type) ==
    [e \in DOMAIN edges \cup new_edges |-> IF e \in new_edges THEN edge_type ELSE edges[e]]

\* the outcomes of one draw r < p per candidate
Draws(p, cand) == IF p = 0 THEN {{}} ELSE SUBSET cand

\* ---------------------------------------------------------- validation
\* a variant that goes on with a default when the probability is negative
BuildErrorDefaultsP(r) ==
    IF r.population_size > HardCeiling THEN "CapacityExceededError"
    ELSE IF r.population_size < MinPopulation \/ r.population_size > MaxPopulation
         THEN "InvalidParameterError"
         ELSE NoError

\* build(): InvalidParameterError for a population_size outside the supported
\* range or a topology parameter outside its domain, CapacityExceededError
\* for a population above the hard ceiling
BuildError(r) ==
    IF r.population_size > HardCeiling THEN "CapacityExceededError"
    ELSE IF \/ r.population_size < MinPopulation
            \/ r.population_size > MaxPopulation
            \/ r.p < 0
         THEN "InvalidParameterError"
         ELSE NoError

\* a request arrives; an invalid one is rejected before anything is built
ReceiveRequest ==
    /\ build_pc = "idle"
    /\ \E r \in Requests :
         /\ request' = r
         /\ IF BuildError(r) # NoError
            THEN /\ error' = BuildError(r)
                 /\ build_pc' = "rejected"
            ELSE /\ error' = NoError
                 /\ build_pc' = r.topology
    /\ UNCHANGED <<G, rewire_next, household_id, workplace_id, school_id>>
    /\ UNCHANGED <<engine, client>>

\* ------------------------------------------------------------ ER_Graph
\* the unordered pairs (i, j) with i < j
Pairs(nodes) == {{i, j} : i, j \in nodes} \ {{i} : i \in nodes}

ER_Graph ==
    /\ build_pc = "erdos_renyi"
    /\ LET nodes == 0..(request.population_size - 1) IN
       \E chosen \in Draws(request.p, Pairs(nodes)) :
          G' = [nodes |-> nodes, edges |-> add_edges(<<>>, chosen, NoType)]
    /\ build_pc' = "built"
    /\ UNCHANGED <<request, error, rewire_next, household_id, workplace_id, school_id>>
    /\ UNCHANGED <<engine, client>>

\* ------------------------------------------------------------ WS_Graph
\* 1. ring lattice: for i = 0 to n-1, for j = 1 to k/2: add edge (i, (i+j) mod n)
RingLattice(n, k) == {{i, (i + j) % n} : i \in 0..(n - 1), j \in 1..(k \div 2)}

\* the idx-th edge (i, j) of the lattice in the order it was added
LatticeEdge(n, k, idx) ==
    LET i == (idx - 1) \div (k \div 2)
        j == ((idx - 1) % (k \div 2)) + 1
    IN <<i, (i + j) % n>>

WS_Lattice ==
    /\ build_pc \in {"watts_strogatz", "hybrid"}
    /\ LET n == request.population_size IN
       G' = [nodes |-> 0..(n - 1),
             edges |-> add_edges(<<>>, RingLattice(n, request.k), NoType)]
    /\ rewire_next' = 1
    /\ build_pc' = IF build_pc = "hybrid" THEN "hybrid_rewire" ELSE "rewire"
    /\ UNCHANGED <<request, error, household_id, workplace_id, school_id>>
    /\ UNCHANGED <<engine, client>>

\* a variant that only excludes the neighbours of i
RewireTargetsAnyNode(edges, nodes, i) == nodes \ neighbors(edges, nodes, i)

\* Select random node v (not i, not neighbor of i)
RewireTargets(edges, nodes, i) == (nodes \ {i}) \ neighbors(edges, nodes, i)

\* 2. one edge (i, j) of the loop: with probability p remove it and add (i, v)
WS_Rewire ==
    /\ build_pc \in {"rewire", "hybrid_rewire"}
    /\ rewire_next <= request.population_size * (request.k \div 2)
    /\ LET e == LatticeEdge(request.population_size, request.k, rewire_next)
           removed == remove_edge(G.edges, e[1], e[2])
       IN \/ G' = G
          \/ /\ request.p > 0
             /\ \E v \in RewireTargets(removed, G.nodes, e[1]) :
                   G' = [G EXCEPT !.edges = add_edge(removed, e[1], v, NoType)]
    /\ rewire_next' = rewire_next + 1
    /\ UNCHANGED <<request, error, build_pc, household_id, workplace_id, school_id>>
    /\ UNCHANGED <<engine, client>>

\* 3. Return G
WS_Return ==
    /\ build_pc = "rewire"
    /\ rewire_next > request.population_size * (request.k \div 2)
    /\ build_pc' = "built"
    /\ UNCHANGED <<request, error, G, rewire_next, household_id, workplace_id, school_id>>
    /\ UNCHANGED <<engine, client>>

\* ------------------------------------------------------------ BA_Graph
\* 1. Initialize G with m0 fully connected nodes; m0 = m + 1, the smallest
\* seed in which m targets with a positive degree exist
BA_Seed ==
    /\ build_pc = "barabasi_albert"
    /\ LET m0 == request.m + 1
           nodes == 0..(m0 - 1)
       IN G' = [nodes |-> nodes, edges |-> add_edges(<<>>, Pairs(nodes), NoType)]
    /\ build_pc' = "attach"
    /\ UNCHANGED <<request, error, rewire_next, household_id, workplace_id, school_id>>
    /\ UNCHANGED <<engine, client>>

\* b. Select m target nodes with probability proportional to degree: m draws
\* among the existing nodes, which all have a positive degree
AttachTargets(nodes, i, m) ==
    {targets \in SUBSET nodes : targets # {} /\ Cardinality(targets) <= m}

\* 2. one new node i = |nodes| with its edges to the selected targets
BA_Attach ==
    /\ build_pc = "attach"
    /\ Cardinality(G.nodes) < request.population_size
    /\ LET i == Cardinality(G.nodes) IN
       \E targets \in AttachTargets(G.nodes, i, request.m) :
          G' = [nodes |-> G.nodes \cup {i},
                edges |-> add_edges(G.edges, {{i, j} : j \in targets}, NoType)]
    /\ UNCHANGED <<request, error, build_pc, rewire_next, household_id, workplace_id, school_id>>
    /\ UNCHANGED <<engine, client>>

BA_Return ==
    /\ build_pc = "attach"
    /\ Cardinality(G.nodes) >= request.population_size
    /\ build_pc' = "built"
    /\ UNCHANGED <<request, error, G, rewire_next, household_id, workplace_id, school_id>>
    /\ UNCHANGED <<engine, client>>

\* ------------------------------------------------- stochastic block model
\* nodes in blocks; a pair inside a block is joined with probability p_intra,
\* a pair across blocks with probability p_inter
Block(v, n_blocks) == v % n_blocks

SBM_Graph ==
    /\ build_pc = "stochastic_block"
    /\ LET nodes == 0..(request.population_size - 1)
           intra == {e \in Pairs(nodes) : \A u, v \in e : Block(u, NBlocks) = Block(v, NBlocks)}
           inter == Pairs(nodes) \ intra
       IN \E within \in Draws(request.p, intra), across \in Draws(request.p, inter) :
             G' = [nodes |-> nodes, edges |-> add_edges(<<>>, within \cup across, NoType)]
    /\ build_pc' = "built"
    /\ UNCHANGED <<request, error, rewire_next, household_id, workplace_id, school_id>>
    /\ UNCHANGED <<engine, client>>

\* ----------------------------------------------------- HybridMultilayer
\* 1. Base Layer: G = WS_Graph(n, k, p), by WS_Lattice and WS_Rewire above.
NoGroup == -1

\* the age attribute of node v: a child, an adult, a senior, a child, ...
NodeAge(v) == age(1 + 3 * (v % 3))

\* adults = nodes where age >= 18 and age < 65
adults(nodes) == {v \in nodes : NodeAge(v) >= 18 /\ NodeAge(v) < 65}

\* a variant without the upper age limit
childrenAnyAge(nodes) == nodes

\* children = nodes where age < 18
children(nodes) == {v \in nodes : NodeAge(v) < 18}

\* the pairs of distinct members of one group
GroupPairs(members, group_id) ==
    {e \in Pairs(members) : \A u, v \in e : group_id[u] = group_id[v]}

\* household sizes are drawn and the nodes fill the households in order:
\* every node gets the id of one household
HouseholdAssignments(nodes) ==
    {h \in [nodes -> 0..(Cardinality(nodes) - 1)] :
        /\ h[0] = 0
        /\ \A v \in nodes \ {0} : h[v] \in {h[v - 1], h[v - 1] + 1}}

\* a partition of the members into groups; the others belong to no group
Partitions(nodes, members) ==
    {g \in [nodes -> {NoGroup} \cup 0..(MaxGroups - 1)] :
        \A v \in nodes : (g[v] # NoGroup) <=> (v \in members)}

\* 2. Household Layer: complete subgraph per household
HouseholdLayer ==
    /\ build_pc = "hybrid_rewire"
    /\ rewire_next > request.population_size * (request.k \div 2)
    /\ \E h \in HouseholdAssignments(G.nodes) :
          /\ household_id' = h
          /\ G' = [G EXCEPT !.edges = add_edges(@, GroupPairs(G.nodes, h), "household")]
    /\ build_pc' = "workplaces"
    /\ UNCHANGED <<request, error, rewire_next, workplace_id, school_id>>
    /\ UNCHANGED <<engine, client>>

\* 3. Workplace Layer: partition adults into workplaces, ER_Graph in each
WorkplaceLayer ==
    /\ build_pc = "workplaces"
    /\ \E w \in Partitions(G.nodes, adults(G.nodes)) :
       \E chosen \in SUBSET GroupPairs(adults(G.nodes), w) :
          /\ workplace_id' = w
          /\ G' = [G EXCEPT !.edges = add_edges(@, chosen, "workplace")]
    /\ build_pc' = "schools"
    /\ UNCHANGED <<request, error, rewire_next, household_id, school_id>>
    /\ UNCHANGED <<engine, client>>

\* 4. School Layer: partition children by age group (the children of an age
\* group K-5, 6-8, 9-12), clusters and inter-grade edges in each school
SchoolLayer ==
    /\ build_pc = "schools"
    /\ \E pupils \in SUBSET children(G.nodes) :
       \E s \in Partitions(G.nodes, pupils) :
       \E chosen \in SUBSET GroupPairs(pupils, s) :
          /\ school_id' = s
          /\ G' = [G EXCEPT !.edges = add_edges(@, chosen, "school")]
    /\ build_pc' = "community"
    /\ UNCHANGED <<request, error, rewire_next, household_id, workplace_id>>
    /\ UNCHANGED <<engine, client>>

\* the nodes within distance d of the nodes in from
RECURSIVE Within(_, _, _, _)
Within(edges, nodes, from, d) ==
    IF d = 0 THEN from
    ELSE Within(edges, nodes,
                from \cup UNION {neighbors(edges, nodes, i) : i \in from}, d - 1)

\* the neighbours of i within distance d
CommunityCandidates(edges, nodes, i) ==
    Within(edges, nodes, {i}, CommunityDistance) \ {i}

\* 5. Community Layer: for each node i, random neighbours within distance d;
\* the edges (i, v) the selections add
CommunityLayer ==
    /\ build_pc = "community"
    /\ LET cand == UNION {{{i, v} : v \in CommunityCandidates(G.edges, G.nodes, i)} :
                             i \in G.nodes}
       IN \E chosen \in SUBSET cand :
             G' = [G EXCEPT !.edges = add_edges(@, chosen, "community")]
    /\ build_pc' = "built"
    /\ UNCHANGED <<request, error, rewire_next, household_id, workplace_id, school_id>>
    /\ UNCHANGED <<engine, client>>

\* ------------------------------------------------------------------ run()
\* run() starts with the disease profile: a sampling distribution with a
\* negative duration is InvalidDiseaseProfileError
ProfileError(min_duration) ==
    IF min_duration < 0 THEN "InvalidDiseaseProfileError" ELSE NoError

StartRun ==
    /\ build_pc = "built"
    /\ \E min_duration \in {-1, 0} :
         /\ request' = [request EXCEPT !.min_duration = min_duration]
         /\ error' = ProfileError(min_duration)
         /\ build_pc' = IF ProfileError(min_duration) # NoError THEN "rejected" ELSE "running"
    /\ UNCHANGED <<G, rewire_next, household_id, workplace_id, school_id>>
    /\ UNCHANGED <<engine, client>>

\* the engine's first step of an accepted run
RunSeeding ==
    /\ build_pc = "running"
    /\ SeedInfections

NextBuild ==
    \/ ReceiveRequest
    \/ ER_Graph
    \/ WS_Lattice
    \/ WS_Rewire
    \/ WS_Return
    \/ BA_Seed
    \/ BA_Attach
    \/ BA_Return
    \/ SBM_Graph
    \/ HouseholdLayer
    \/ WorkplaceLayer
    \/ SchoolLayer
    \/ CommunityLayer
    \/ StartRun
    \/ RunSeeding

InitBuild ==
    /\ n_seed = 1 /\ beta = 1 /\ vax_start = NoDay /\ vax_end = NoDay
    /\ vax_doses = 1 /\ wane_after = 0
    /\ NoLockdown
    /\ states = [n \in Nodes |-> "S"]
    /\ state_sets = [k \in StateKeys |-> IF k = "S" THEN Nodes ELSE {}]
    /\ transition_queue = EmptyBag
    /\ infection_tree = [n \in Nodes |-> NoNode]
    /\ seed_nodes = {}
    /\ infection_times = [n \in Nodes |-> NoDay]
    /\ infectious_times = [n \in Nodes |-> NoDay]
    /\ vaccination_day = [n \in Nodes |-> NoDay]
    /\ history = <<>>
    /\ t = 0
    /\ pc = "seed"
    /\ todo = {}
    /\ r_eff = <<0, 0>>
    /\ BuilderIdle
    /\ ClientIdle

SpecBuild == InitBuild /\ [][NextBuild]_vars

\* ================================================================ App
\* The frontend App component (state, polling effect, completion effect and
\* handlers) with the simulation service it talks to. A request is handled by
\* the service when it is sent; its response reaches the client later.

\* useEffect cleanup that forgets to clear the interval it created
ClearIntervalNever(live, held) == live

\* return () => clearInterval(interval)
ClearInterval(live, held) ==
    IF held = NoSim THEN live ELSE live (-) SetToBag({<<held, PollInterval>>})

\* useEffect(..., [currentSimulation, simulationStatus?.status]): when a
\* dependency changed, the previous effect is cleaned up and, if a simulation
\* is current and running, setInterval(() => fetchSimulationStatus(...), 2000).
\* Gives <<the live intervals, the simulation the effect's interval polls>>.
PollingEffect(old_sim, old_status, new_sim, new_status) ==
    IF old_sim = new_sim /\ old_status = new_status
    THEN <<intervals, effect_interval>>
    ELSE LET cleared == ClearInterval(intervals, effect_interval)
         IN IF new_sim # NoSim /\ new_status = "running"
            THEN <<cleared (+) SetToBag({<<new_sim, PollInterval>>}), new_sim>>
            ELSE <<cleared, NoSim>>

\* useEffect(..., [simulationStatus?.status]): the results requests in flight
\* after the effect: on 'completed', fetchSimulationResults(currentSimulation)
CompletionFetch(old_status, new_sim, new_status) ==
    IF old_status # new_status /\ new_status = "completed"
    THEN results_inflight \cup {new_sim}
    ELSE results_inflight

\* the state changes of one render and the effects that follow it
Commit(new_sim, new_status) ==
    /\ currentSimulation' = new_sim
    /\ simulationStatus' = new_status
    /\ intervals' = PollingEffect(currentSimulation, simulationStatus, new_sim, new_status)[1]
    /\ effect_interval' = PollingEffect(currentSimulation, simulationStatus, new_sim, new_status)[2]
    /\ results_inflight' = CompletionFetch(simulationStatus, new_sim, new_status)

\* SimulationConfig: disabled={loading || isRunning}
StartDisabled == loading \/ simulationStatus = "running"

\* handleStartSimulation up to the POST, from the Run Simulation button or,
\* through handleRunExample, from Run Example Simulation; the service creates
\* the simulation or refuses
HandleStartSimulation ==
    /\ \E button \in {"run", "example"} : button = "run" => ~StartDisabled
    /\ Cardinality(start_inflight) < MaxInFlight
    /\ loading' = TRUE
    /\ appError' = FALSE
    /\ simulationResults' = NoSim
    /\ \/ /\ \E id \in SimIds : 
               /\ server[id] = "none"
               /\ \A other \in SimIds : other < id => server[other] # "none"
               /\ server' = [server EXCEPT ![id] = "running"]
               /\ start_inflight' = start_inflight \cup {id}
       \/ /\ NoSim \notin start_inflight
          /\ start_inflight' = start_inflight \cup {NoSim}
          /\ UNCHANGED server
    /\ UNCHANGED <<currentSimulation, simulationStatus, intervals, effect_interval,
                   status_inflight, results_inflight>>
    /\ UNCHANGED <<engine, builder, summary, ui>>

\* the response of the POST: setCurrentSimulation, setSimulationStatus
\* ({status: 'running'}), or setError when it is not ok; finally setLoading(false)
StartResponse ==
    /\ \E id \in start_inflight :
         /\ start_inflight' = start_inflight \ {id}
         /\ IF id = NoSim
            THEN /\ appError' = TRUE
                 /\ UNCHANGED <<currentSimulation, simulationStatus, intervals,
                                effect_interval, results_inflight>>
            ELSE /\ Commit(id, "running")
                 /\ UNCHANGED appError
    /\ loading' = FALSE
    /\ UNCHANGED <<simulationResults, status_inflight, server>>
    /\ UNCHANGED <<engine, builder, summary, ui>>

\* an interval fires: fetchSimulationStatus(currentSimulation) of its effect
PollTick ==
    /\ \E interval \in BagToSet(intervals) :
         /\ Cardinality(status_inflight) < MaxInFlight
         /\ <<interval[1], server[interval[1]]>> \notin status_inflight
         /\ status_inflight' = status_inflight \cup {<<interval[1], server[interval[1]]>>}
    /\ UNCHANGED <<currentSimulation, simulationStatus, simulationResults, loading, appError,
                   intervals, effect_interval, start_inflight, results_inflight, server>>
    /\ UNCHANGED <<engine, builder, summary, ui>>

\* fetchSimulationStatus: setSimulationStatus(data), then the effects; a
\* 'failed' status sets the error and clears loading
StatusResponse ==
    /\ \E response \in status_inflight :
         /\ status_inflight' = status_inflight \ {response}
         /\ Commit(currentSimulation, response[2])
         /\ IF simulationStatus # response[2] /\ response[2] = "failed"
            THEN appError' = TRUE /\ loading' = FALSE
            ELSE UNCHANGED <<appError, loading>>
    /\ UNCHANGED <<simulationResults, start_inflight, server>>
    /\ UNCHANGED <<engine, builder, summary, ui>>

\* fetchSimulationResults: setSimulationResults(data)
ResultsResponse ==
    /\ \E id \in results_inflight :
         /\ results_inflight' = results_inflight \ {id}
         /\ simulationResults' = id
    /\ UNCHANGED <<currentSimulation, simulationStatus, loading, appError, intervals,
                   effect_interval, start_inflight, status_inflight, server>>
    /\ UNCHANGED <<engine, builder, summary, ui>>

\* handleNewSimulation (the button is shown when a simulation is current)
HandleNewSimulation ==
    /\ currentSimulation # NoSim
    /\ Commit(NoSim, "null")
    /\ simulationResults' = NoSim
    /\ appError' = FALSE
    /\ UNCHANGED <<loading, start_inflight, status_inflight, server>>
    /\ UNCHANGED <<engine, builder, summary, ui>>

\* the service finishes a simulation
ServerFinish ==
    /\ \E id \in SimIds :
         /\ server[id] = "running"
         /\ \E outcome \in {"completed", "failed"} :
               server' = [server EXCEPT ![id] = outcome]
    /\ UNCHANGED <<currentSimulation, simulationStatus, simulationResults, loading, appError,
                   intervals, effect_interval, start_inflight, status_inflight,
                   results_inflight>>
    /\ UNCHANGED <<engine, builder, summary, ui>>

NextApp ==
    \/ HandleStartSimulation
    \/ StartResponse
    \/ PollTick
    \/ StatusResponse
    \/ ResultsResponse
    \/ HandleNewSimulation
    \/ ServerFinish

InitApp ==
    /\ n_seed = 0 /\ beta = 1 /\ vax_start = NoDay /\ vax_end = NoDay
    /\ vax_doses = 1 /\ wane_after = 0
    /\ NoLockdown
    /\ states = [n \in Nodes |-> "S"]
    /\ state_sets = [k \in StateKeys |-> IF k = "S" THEN Nodes ELSE {}]
    /\ transition_queue = EmptyBag
    /\ infection_tree = [n \in Nodes |-> NoNode]
    /\ seed_nodes = {}
    /\ infection_times = [n \in Nodes |-> NoDay]
    /\ infectious_times = [n \in Nodes |-> NoDay]
    /\ vaccination_day = [n \in Nodes |-> NoDay]
    /\ history = <<>>
    /\ t = 0
    /\ pc = "seed"
    /\ todo = {}
    /\ r_eff = <<0, 0>>
    /\ BuilderIdle
    /\ ClientIdle

SpecApp == InitApp /\ [][NextApp]_vars

\* ===================================================== SimulationConfig
\* handleNetworkChange(field, value) from the inputs of the main form
HandleNetworkChange ==
    /\ \E field \in MainFields, value \in Values :
         config_network' = [config_network EXCEPT ![field] = value]
    /\ UNCHANGED <<openAdvancedSection, params, submitted>>
    /\ UNCHANGED <<engine, builder, summary, app, viewer, planner>>

\* the buttons of the advanced sections; AdvancedNetworkConfig is mounted
\* while the section is 'network', with useState(initialParams)
ToggleAdvancedSection ==
    /\ \E section \in {"network", "disease"} :
         openAdvancedSection' = IF openAdvancedSection = section THEN "null" ELSE section
    /\ params' = IF openAdvancedSection' # "network" THEN NoParams
                  ELSE IF openAdvancedSection # "network" THEN config_network
                  ELSE params
    /\ UNCHANGED <<config_network, submitted>>
    /\ UNCHANGED <<engine, builder, summary, app, viewer, planner>>

\* { ...prev.network, ...params }
MergeParams(network, changed) ==
    [f \in DOMAIN network |-> IF f \in DOMAIN changed THEN changed[f] ELSE network[f]]

\* AdvancedNetworkConfig.handleChange(key, value): newParams = { ...params,
\* [key]: value }; setParams(newParams); onParamsChange(newParams)
HandleChange ==
    /\ openAdvancedSection = "network"
    /\ \E key \in AdvancedFields, value \in Values :
         LET newParams == [f \in DOMAIN params \cup {key} |->
                             IF f = key THEN value ELSE params[f]]
         IN /\ params' = newParams
            /\ config_network' = MergeParams(config_network, newParams)
    /\ UNCHANGED <<openAdvancedSection, submitted>>
    /\ UNCHANGED <<engine, builder, summary, app, viewer, planner>>

\* handleSubmit: onStartSimulation(config)
HandleSubmit ==
    /\ submitted' = config_network
    /\ UNCHANGED <<config_network, openAdvancedSection, params>>
    /\ UNCHANGED <<engine, builder, summary, app, viewer, planner>>

NextForm ==
    \/ HandleNetworkChange
    \/ ToggleAdvancedSection
    \/ HandleChange
    \/ HandleSubmit

SpecForm == InitApp /\ [][NextForm]_vars

\* ========================================================= AnimationTab
\* the tab is opened on results whose history has maxFrames entries
MountAnimationTab ==
    /\ ~viewer_mounted
    /\ viewer_mounted' = TRUE
    /\ maxFrames' \in 0..MaxFrames
    /\ UNCHANGED <<currentFrame, isPlaying, playbackSpeed, play_intervals, playIntervalRef>>
    /\ UNCHANGED <<engine, builder, summary, app, form, planner>>

\* the cleanup of the auto-play effect: if (playIntervalRef.current)
\* clearInterval(playIntervalRef.current)
ClearPlayInterval(live, held) ==
    IF held = NoInterval THEN live ELSE live (-) SetToBag({held})

\* useEffect(..., [isPlaying, playbackSpeed, maxFrames]): <<the live
\* intervals, the live interval the ref names>> after the effects of a render
PlayEffect(new_playing, new_speed) ==
    IF new_playing = isPlaying /\ new_speed = playbackSpeed
    THEN <<play_intervals, playIntervalRef>>
    ELSE LET cleared == ClearPlayInterval(play_intervals, playIntervalRef)
         IN IF new_playing
            THEN <<cleared (+) SetToBag({new_speed}), new_speed>>
            ELSE <<cleared, NoInterval>>

\* a render with the new state, then the effect
Render(frame, playing, speed) ==
    /\ currentFrame' = frame
    /\ isPlaying' = playing
    /\ playbackSpeed' = speed
    /\ play_intervals' = PlayEffect(playing, speed)[1]
    /\ playIntervalRef' = PlayEffect(playing, speed)[2]
    /\ UNCHANGED <<viewer_mounted, maxFrames>>
    /\ UNCHANGED <<engine, builder, summary, app, form, planner>>

\* a variant of the updater that runs past the last frame
TickFrameNoEnd(prev) == <<prev + 1, FALSE>>

\* the updater of the interval callback: <<the next frame, whether
\* setIsPlaying(false) is called>>
TickFrame(prev) ==
    IF prev >= maxFrames - 1 THEN <<0, TRUE>> ELSE <<prev + 1, FALSE>>

\* an auto-play interval fires
PlayTick ==
    /\ viewer_mounted
    /\ play_intervals # EmptyBag
    /\ Render(TickFrame(currentFrame)[1],
              IF TickFrame(currentFrame)[2] THEN FALSE ELSE isPlaying,
              playbackSpeed)

HandlePlayPause ==
    /\ viewer_mounted
    /\ Render(currentFrame, ~isPlaying, playbackSpeed)

\* disabled={currentFrame === 0}
PrevDisabled == currentFrame = 0

\* a variant in which Next and Last are never disabled
NextDisabledNever == FALSE

\* disabled={currentFrame >= maxFrames - 1}
NextDisabled == currentFrame >= maxFrames - 1

Min(a, b) == IF a < b THEN a ELSE b

HandleFirst ==
    /\ viewer_mounted /\ ~PrevDisabled
    /\ Render(0, FALSE, playbackSpeed)

HandlePrev ==
    /\ viewer_mounted /\ ~PrevDisabled
    /\ Render(MathMax(<<0, currentFrame - 1>>), FALSE, playbackSpeed)

HandleNext ==
    /\ viewer_mounted /\ ~NextDisabled
    /\ Render(Min(maxFrames - 1, currentFrame + 1), FALSE, playbackSpeed)

HandleLast ==
    /\ viewer_mounted /\ ~NextDisabled
    /\ Render(maxFrames - 1, FALSE, playbackSpeed)

\* the range input: min 0, max Math.max(0, maxFrames - 1)
HandleSliderChange ==
    /\ viewer_mounted
    /\ \E value \in 0..MathMax(<<0, maxFrames - 1>>) :
         /\ value # currentFrame
         /\ Render(value, FALSE, playbackSpeed)

\* the speed buttons: setPlaybackSpeed(1000 / fps)
SetPlaybackSpeed ==
    /\ viewer_mounted
    /\ \E fps \in Speeds :
         /\ fps # playbackSpeed
         /\ Render(currentFrame, isPlaying, fps)

\* what the user can do in the viewer
UserInput ==
    \/ HandlePlayPause
    \/ HandleFirst
    \/ HandlePrev
    \/ HandleNext
    \/ HandleLast
    \/ HandleSliderChange
    \/ SetPlaybackSpeed

NextViewer ==
    \/ MountAnimationTab
    \/ PlayTick
    \/ HandlePlayPause
    \/ HandleFirst
    \/ HandlePrev
    \/ HandleNext
    \/ HandleLast
    \/ HandleSliderChange
    \/ SetPlaybackSpeed

SpecViewer == InitApp /\ [][NextViewer]_vars

\* ========================================== AdvancedInterventionBuilder
\* time passes between two events: Date.now() has advanced by a millisecond
ClockTick ==
    /\ clock < MaxClock
    /\ clock' = clock + 1
    /\ UNCHANGED <<interventions, custom_interventions>>
    /\ UNCHANGED <<engine, builder, summary, app, form, viewer>>

\* setInterventions(updated); onInterventionsChange(updated), which is
\* handleConfigChange('custom_interventions', updated)
SetInterventions(updated) ==
    /\ interventions' = updated
    /\ custom_interventions' = updated
    /\ UNCHANGED clock
    /\ UNCHANGED <<engine, builder, summary, app, form, viewer>>

\* Date.now()
DateNow == clock

\* addIntervention: [...interventions, { ...newIntervention, id: Date.now() }]
AddIntervention ==
    /\ Len(interventions) < MaxInterventions
    /\ SetInterventions(Append(interventions,
                               [id |-> DateNow, params |-> [k \in ParamKeys |-> 0]]))

\* interventions.filter(i => i.id !== id)
RECURSIVE WithoutId(_, _)
WithoutId(list, id) ==
    IF list = <<>> THEN <<>>
    ELSE IF Head(list).id = id THEN WithoutId(Tail(list), id)
    ELSE <<Head(list)>> \o WithoutId(Tail(list), id)

\* removeIntervention(id) from the card of a scheduled entry
RemoveIntervention ==
    \E i \in DOMAIN interventions :
        SetInterventions(WithoutId(interventions, interventions[i].id))

\* interventions.map(i => i.id === id ? { ...i, params: { ...i.params,
\* [key]: value } } : i)
WithParam(list, id, key, value) ==
    [i \in DOMAIN list |->
        IF list[i].id = id
        THEN [list[i] EXCEPT !.params = [@ EXCEPT ![key] = value]]
        ELSE list[i]]

\* updateInterventionParam(id, key, value) from the card of a scheduled entry
UpdateInterventionParam ==
    \E i \in DOMAIN interventions, key \in ParamKeys, value \in Values :
        /\ interventions[i].params[key] # value
        /\ SetInterventions(WithParam(interventions, interventions[i].id, key, value))

NextPlanner ==
    \/ ClockTick
    \/ AddIntervention
    \/ RemoveIntervention
    \/ UpdateInterventionParam

SpecPlanner == InitApp /\ [][NextPlanner]_vars

\* ================================================================ claims
SumCounts(snap) == snap["S"] + snap["E"] + snap["I"] + snap["R"] + snap["D"]

\* C1: on every recorded day the per-day counts of S, E, I, R and D sum to
\* population_size, also on days with vaccination or waning.
ClaimC1_Conservation ==
    \A d \in 1..Len(history) : SumCounts(history[d]) = PopulationSize

Stage(s) == CASE s = "S" -> 0 [] s = "E" -> 1 [] s = "I" -> 2 [] OTHER -> 3

\* C2: a node's state only moves forward along S -> E -> I -> {R | D}; no step
\* moves a Recovered or Deceased node to another state and none moves a node
\* backwards.
ClaimC2_Monotonic ==
    [][\A n \in Nodes :
          /\ states[n] \in {"R", "D"} => states'[n] = states[n]
          /\ (states[n] \in Counted /\ states'[n] \in Counted)
                => Stage(states'[n]) >= Stage(states[n])]_vars

\* C3: every node has exactly one state: the state map and the state sets
\* agree, so the sets are pairwise disjoint and cover the node set.
ClaimC3_OneState ==
    \A n \in Nodes : \A k \in StateKeys : (n \in state_sets[k]) <=> (states[n] = k)

\* C4: the transmission pass of a day runs before its transition pass, and a
\* node exposed in day t's transmission pass is not made Infectious in day t's
\* transition pass.
ClaimC4_NoSameDayTransition ==
    [][/\ pc = "transitions" => pc' \in {"transitions", "interventions"}
       /\ \A n \in Nodes :
            (states[n] # "I" /\ states'[n] = "I")
               => ~(infection_times[n] = t /\ infection_tree[n] # NoNode)]_vars

\* C5: a node is infected at most once per run (hence at most once per day):
\* a step that moves a node to Exposed finds it never infected before.
ClaimC5_InfectedOnce ==
    [][\A n \in Nodes :
          (states[n] # "E" /\ states'[n] = "E") => infection_times[n] = NoDay]_vars

\* C6: with transmission probability 0 on every edge, after seeding the
\* nodes ever infected are exactly the n_seed seeds: no InfectionEdge is ever
\* recorded and nobody but a seed has an infection day.
InvC6_NoSpontaneousInfection ==
    (beta = 0 /\ pc # "seed")
        => /\ Cardinality(EverInfected) = n_seed
           /\ \A n \in Nodes : infection_tree[n] = NoNode
           /\ \A n \in Nodes : infection_times[n] \in {NoDay, 0}

\* an Infectious node next to a Susceptible one went through a transmission
\* pass with probability 0
WitC6 ==
    /\ beta = 0
    /\ pc = "transitions"
    /\ t >= 1
    /\ \E i \in state_sets["I"] : \E j \in Neighbors(i) : states[j] = "S"

\* C7: with n_seed_infections = 0 the run ends at day 0 with exactly one
\* snapshot, and no snapshot counts an Exposed or Infectious node.
InvC7_NoSeedsEndsAtDayZero ==
    n_seed = 0
        => /\ t = 0
           /\ Len(history) <= 1
           /\ pc = "done" <=> Len(history) = 1
           /\ \A d \in 1..Len(history) : history[d]["E"] = 0 /\ history[d]["I"] = 0

WitC7 == n_seed = 0 /\ pc = "done" /\ vax_start = 0 /\ Len(history) = 1

\* C8: the attack rate never decreases from one day to the next: neither the
\* number of nodes ever infected nor the per-day attack rate the client
\* derives from the Susceptible series.
ClaimC8_AttackRateMonotone ==
    /\ \A d \in 2..Len(history) :
          history[1]["S"] > 0 =>
             RatLeq(AttackRateChart(history)[d - 1], AttackRateChart(history)[d])

\* the nodes infected in the trailing window [t - 7, t)
InWindow == {v \in Nodes : infection_times[v] \in (t - Window)..(t - 1)}

\* the InfectionEdges whose infector is in the window
EdgesFromWindow == {j \in Nodes : infection_tree[j] \in InWindow}

OnsetInWindow == {v \in Nodes : infectious_times[v] \in (t - Window)..(t - 1)}

PhaseRank(p) == CASE p = "seed" -> 5 [] p = "transmission" -> 4 [] p = "transitions" -> 3
                  [] p = "interventions" -> 2 [] p = "record" -> 1 [] OTHER -> 0

\* the work the queue still holds: an entry to Infectious schedules one more
QueueWork(q) ==
    BagCardinality(q) + BagCardinality([e \in {x \in DOMAIN q : x[3] = "I"} |-> q[e]])

\* what is left of the run: the days, the passes of the day, the steps of the pass
Variant ==
    <<MaxDays - t, PhaseRank(pc),
      IF pc = "transmission" THEN Cardinality(todo)
      ELSE IF pc = "transitions" THEN QueueWork(transition_queue) ELSE 0>>

LexLess(x, y) ==
    \/ x[1] < y[1]
    \/ x[1] = y[1] /\ x[2] < y[2]
    \/ x[1] = y[1] /\ x[2] = y[2] /\ x[3] < y[3]

\* the run can go on
CanStep == ENABLED Next

EngineUntouched ==
    /\ pc = "seed"
    /\ \A n \in Nodes : states[n] = "S" /\ infection_times[n] = NoDay
    /\ transition_queue = EmptyBag
    /\ history = <<>>

InvalidPopulation(r) ==
    r.population_size < MinPopulation \/ r.population_size > MaxPopulation

InvC13_SimpleGraph ==
    \A e \in DOMAIN G.edges : Cardinality(e) = 2 /\ e \subseteq G.nodes

\* a small-world graph with a rewired edge
WitC13 ==
    /\ build_pc = "built"
    /\ request.topology = "watts_strogatz"
    /\ \E e \in DOMAIN G.edges : e \notin RingLattice(request.population_size, request.k)

\* C14: in the layered graph every node has one household; a node has a
\* workplace only if it is of working age, a school only if it is of school
\* age, and never both.
InvC14_Memberships ==
    (request.topology = "hybrid" /\ build_pc \in {"built", "running", "rejected"}
       /\ error \notin {"CapacityExceededError", "InvalidParameterError"}) =>
        /\ DOMAIN household_id = G.nodes
        /\ DOMAIN workplace_id = G.nodes
        /\ DOMAIN school_id = G.nodes
        /\ \A v \in G.nodes :
              /\ household_id[v] \in Nat
              /\ workplace_id[v] # NoGroup => (NodeAge(v) >= 18 /\ NodeAge(v) < 65)
              /\ school_id[v] # NoGroup => NodeAge(v) < 18
              /\ workplace_id[v] = NoGroup \/ school_id[v] = NoGroup

\* a layered graph with a pupil, a worker and a node that is neither
WitC14 ==
    /\ request.topology = "hybrid"
    /\ build_pc = "built"
    /\ \E u, v, w \in G.nodes :
          /\ school_id[u] # NoGroup
          /\ workplace_id[v] # NoGroup
          /\ school_id[w] = NoGroup /\ workplace_id[w] = NoGroup

\* --------------------------------------------------------- client summary
\* C15: the attack rate the client summary shows for a finished run is
\* 1 - (final Susceptible) / population_size, as a percentage.
ClaimC15_SummaryAttackRate ==
    pc = "done" =>
        SimulationSummary(history).attackRate =
            toFixed1(PopulationSize - history[Len(history)]["S"], PopulationSize)

\* C16: peak_infections is the maximum of the Infectious series and peak_day
\* the first day on which the series attains it.
InvC16_Peak ==
    pc = "rendered" =>
        LET I == Series(history, "I")
            day == summary.peakDay + 1
        IN /\ day \in 1..Len(I)
           /\ I[day] = summary.peakInfections
           /\ \A d \in 1..Len(I) : I[d] <= summary.peakInfections
           /\ \A d \in 1..(day - 1) : I[d] < summary.peakInfections

\* the maximum is attained on two days and the summary shows the first
WitC16 ==
    /\ pc = "rendered"
    /\ \E d1, d2 \in 1..Len(history) :
          /\ d1 < d2
          /\ history[d1]["I"] = summary.peakInfections
          /\ history[d2]["I"] = summary.peakInfections
          /\ summary.peakInfections > 0
          /\ summary.peakDay = d1 - 1

\* ------------------------------------------------------------- lockdown
\* x and y are the same number
RatEq(x, y) == x[1] * y[2] = y[1] * x[2]

\* C17: interventions never change the graph: on every day, during and after
\* the validity window of a lockdown directive, every edge stores the weight
\* it had after graph construction.
ClaimC17_GraphUnchanged ==
    \A e \in Edges : RatEq(edge_weight[e], BuiltWeights[e])

\* ------------------------------------------------------- daily new cases
\* C19: in a finished run without vaccination, the daily new cases the charts
\* show for each day after day 0 equal the drop of the Susceptible count from
\* the previous day, and their running sum from day 1 equals the number that
\* left the Susceptible pool since day 0 (the chart's Total Infected).
ClaimC19_DailyNewCases ==
    (pc = "done" /\ vax_start = NoDay) =>
        \A d \in 2..Len(history) :
            /\ dailyNew(history)[d] = history[d - 1]["S"] - history[d]["S"]
            /\ RunningSum(dailyNew(history), 2, d) = totalInfected(history)[d]

\* -------------------------------------------------------------- seeding
\* the seeding step: taken on day 0 with nothing recorded yet, never taken
\* again; it moves exactly n_seed distinct nodes from S to E, leaves the
\* others S, and schedules exactly one E->I transition per seed
SeedingStep ==
    /\ pc' = "seed" => pc = "seed"
    /\ (pc = "seed" /\ pc' # "seed") =>
          LET queue == transition_queue' IN
          /\ t = 0 /\ t' = 0 /\ history = <<>>
          /\ n_seed <= PopulationSize
          /\ Cardinality(seed_nodes') = n_seed
          /\ \A n \in Nodes :
                /\ states[n] = "S"
                /\ states'[n] = IF n \in seed_nodes' THEN "E" ELSE "S"
          /\ state_sets'["E"] = seed_nodes'
          /\ state_sets'["S"] = Nodes \ seed_nodes'
          /\ BagCardinality(queue) = n_seed
          /\ \A s \in seed_nodes' :
                \E due \in BagToSet(queue) :
                    /\ due[1] >= 0 /\ due[2] = s /\ due[3] = "I"
                    /\ CopiesIn(due, queue) = 1
                    /\ \A e \in BagToSet(queue) : e[2] = s => e = due

\* C20: seeding happens on day 0 only, moves exactly n_seed distinct nodes
\* from Susceptible to Exposed, leaves every other node Susceptible and
\* schedules exactly one Exposed->Infectious transition for each seed; and no
\* seed is ever recorded as the infectee of an infection edge.
ClaimC20_Seeding ==
    [][/\ SeedingStep
       /\ \A s \in seed_nodes' : infection_tree'[s] = NoNode]_vars

\* ------------------------------------------------------------------ App
\* C18: the frontend polls the status every 2 seconds exactly while a
\* simulation is current and its last known status is 'running': then one
\* interval of 2000 ms polls the current simulation, otherwise none is live;
\* and a render in which the status becomes 'completed' sends the results
\* request of the current simulation.
ClaimC18_Polling ==
    [][LET live == intervals' IN
          /\ BagCardinality(live) <= 1
          /\ (live # EmptyBag) <=>
                (currentSimulation' # NoSim /\ simulationStatus' = "running")
          /\ \A interval \in BagToSet(live) :
                interval = <<currentSimulation', PollInterval>>
          /\ (simulationStatus # "completed" /\ simulationStatus' = "completed")
                => currentSimulation' \in results_inflight']_vars

\* polling found the simulation completed: the interval is gone and the
\* results of the current simulation are on request
WitC18 ==
    /\ currentSimulation # NoSim
    /\ simulationStatus = "completed"
    /\ server[currentSimulation] = "completed"
    /\ intervals = EmptyBag
    /\ currentSimulation \in results_inflight

\* ------------------------------------------------- scheduled transitions
\* the pending transitions of node n
Pending(q, n) == [e \in {x \in BagToSet(q) : x[2] = n} |-> CopiesIn(e, q)]

\* node n is in one of the states ks by the state map or by the state sets
\* the daily counts are taken from
Recorded(map, sets, n, ks) == map[n] \in ks \/ \E k \in ks : n \in sets[k]

\* at the end of day t (statistics about to be recorded, or the run over)
EndOfDay == pc \in {"record", "done"}

\* C21: transitions are scheduled only for a node entering Exposed or
\* Infectious and are removed only on their day, by the move of their node to
\* their state; at the end of every day every Exposed or Infectious node has
\* exactly one pending transition, dated later than the day, every
\* Susceptible, Recovered or Deceased node has none, and none is dated in the
\* past.
ClaimC21_ScheduledTransitions ==
    [][LET q == transition_queue'
           day == t'
       IN
       /\ \A e \in BagToSet(q) :
             CopiesIn(e, q) > CopiesIn(e, transition_queue) =>
                /\ states'[e[2]] \in {"E", "I"}
                /\ states'[e[2]] # states[e[2]]
       /\ \A e \in BagToSet(transition_queue) :
             CopiesIn(e, q) < CopiesIn(e, transition_queue) =>
                /\ pc = "transitions"
                /\ e[1] = t
                /\ states'[e[2]] = e[3]
       /\ EndOfDay' =>
             /\ \A e \in BagToSet(q) : e[1] > day
             /\ \A n \in Nodes :
                   /\ Recorded(states', state_sets', n, {"E", "I"}) =>
                         /\ BagCardinality(Pending(q, n)) = 1
                         /\ \A e \in DOMAIN Pending(q, n) : e[1] > day
                   /\ states'[n] \in {"S", "R", "D"} =>
                         Pending(q, n) = EmptyBag]_vars

\* ------------------------------------------------------ infection lineage
\* get_infection_chain(node), cut after steps links: the node it ends at, or
\* NoNode when it has not ended by then
RECURSIVE ChainEnd(_, _, _)
ChainEnd(tree, node, steps) ==
    IF tree[node] = NoNode THEN node
    ELSE IF steps = 0 THEN NoNode
    ELSE ChainEnd(tree, tree[node], steps - 1)

\* C22: the infection lineage is append-only and a forest: a recorded edge
\* is never changed or removed (so a node is the infectee of at most one
\* edge), the infector of a new edge is Infectious, a neighbour of the
\* infectee and was itself infected on an earlier day, and the chain of
\* infectors of every infectee ends at a seed.
ClaimC22_Lineage ==
    [][LET tree == infection_tree' IN
       \A n \in Nodes :
          /\ infection_tree[n] # NoNode => tree[n] = infection_tree[n]
          /\ tree[n] # infection_tree[n] =>
                /\ states[tree[n]] = "I"
                /\ tree[n] \in Neighbors(n)
                /\ infection_times[tree[n]] # NoDay
                /\ infection_times[tree[n]] < t
                /\ infection_times'[n] = t
          /\ tree[n] # NoNode =>
                ChainEnd(tree, n, PopulationSize) \in seed_nodes']_vars

\* ------------------------------------------------------------ vaccination
\* the nodes a vaccination step may select: Susceptible or Recovered and not
\* vaccinated before
Eligible == {n \in Nodes : states[n] \in {"S", "R"} /\ vaccination_day[n] = NoDay}

\* C23: on a day with an active vaccination directive the nodes marked
\* Vaccinated are at most the day's doses, all eligible (Susceptible or
\* Recovered, not vaccinated before), and first in the priority order among
\* the eligible; when fewer are eligible than there are doses, all of them
\* are marked.
ClaimC23_Vaccination ==
    [][(pc = "interventions" /\ VaccinationActive) =>
          LET marked == {n \in Nodes : vaccination_day'[n] = t} IN
          /\ Cardinality(marked) <= vax_doses
          /\ marked \subseteq Eligible
          /\ \A n \in marked : states'[n] = "V"
          /\ \A n \in marked, m \in Eligible \ marked : age(n) > age(m)
          /\ Cardinality(Eligible) <= vax_doses => marked = Eligible]_vars

ClaimC25_AdvancedChangeFrame ==
    [][/\ (openAdvancedSection = "network" /\ params' # params
                                            /\ openAdvancedSection' = "network") =>
             \E key \in AdvancedFields :
                \A f \in Fields \ {key} : config_network'[f] = config_network[f]
       /\ submitted' # submitted => submitted' = config_network]_vars

\* ------------------------------------------------------ stale responses
\* C26: the status and the results the frontend holds belong to the current
\* simulation: a status response of another simulation than the current one
\* (or arriving when none is current) is not applied, no status or results
\* are held while no simulation is current, results held are those of the
\* current simulation, and results are requested for the current simulation
\* only, never for a null id.
ClaimC26_NoStaleResponse ==
    [][/\ \A response \in status_inflight \ status_inflight' :
             response[1] # currentSimulation => simulationStatus' = simulationStatus
       /\ currentSimulation' = NoSim =>
             (simulationStatus' = "null" /\ simulationResults' = NoSim)
       /\ simulationResults' \in {NoSim, currentSimulation'}
       /\ (results_inflight' \ results_inflight) \subseteq ({currentSimulation'} \ {NoSim})]_vars

\* -------------------------------------------------------- start disabled
\* C27: while the frontend is loading or the status is 'running', no user
\* action starts another simulation: no request to create one is sent.
ClaimC27_NoStartWhileBusy ==
    [][StartDisabled => start_inflight' \subseteq start_inflight]_vars

\* ------------------------------------------------------ animation viewer
CanTick == ENABLED PlayTick

\* C28: a timer tick of auto-play advances the current frame by exactly one
\* and keeps playing, except at the last frame, where it sets isPlaying to
\* false and the frame to 0; so from any frame playback stops by itself
\* after at most maxFrames ticks. While playing exactly one interval is live
\* and ticks can fire; once stopped no interval is live and no tick fires
\* until the user acts. First, Prev, Next, Last and the slider stop playback.
ClaimC28_AutoPlay ==
    [][/\ PlayTick =>
             /\ isPlaying
             /\ \/ /\ currentFrame < maxFrames - 1
                    /\ currentFrame' = currentFrame + 1
                    /\ isPlaying'
                 \/ /\ currentFrame >= maxFrames - 1
                    /\ currentFrame' = 0
                    /\ ~isPlaying'
             /\ isPlaying' => maxFrames - currentFrame' < maxFrames - currentFrame
       /\ isPlaying' <=> CanTick'
       /\ BagCardinality(play_intervals') = IF isPlaying' THEN 1 ELSE 0
       /\ (HandleFirst \/ HandlePrev \/ HandleNext \/ HandleLast \/ HandleSliderChange)
             => ~isPlaying'
       /\ (~isPlaying /\ currentFrame' # currentFrame) => UserInput]_vars

\* playing at the last frame of a history of several days, at a speed the
\* user chose: the next tick ends the playback
WitC28 ==
    /\ viewer_mounted /\ maxFrames >= 3
    /\ isPlaying /\ currentFrame = maxFrames - 1
    /\ playbackSpeed # InitialSpeed
    /\ play_intervals = SetToBag({playbackSpeed})

\* C29: the current frame stays within 0 .. max(0, maxFrames - 1) for every
\* frame count, so the viewer reads no history entry outside the recorded
\* days.
InvC29_FrameInRange ==
    currentFrame \in 0..MathMax(<<0, maxFrames - 1>>)

\* the last frame of a short history, reached while playing
WitC29 ==
    /\ viewer_mounted /\ maxFrames = 2
    /\ currentFrame = maxFrames - 1
    /\ isPlaying

\* -------------------------------------------------- intervention builder
\* the list without its entry at position k
RemoveAt(list, k) == [i \in 1..(Len(list) - 1) |-> IF i < k THEN list[i] ELSE list[i + 1]]

\* C30: the ids of the scheduled interventions are pairwise different; a
\* removal deletes exactly one entry and keeps the others, removing the entry
\* just added restores the previous list, an update changes one parameter of
\* one entry, and the list passed to onInterventionsChange is the builder's
\* own new list.
ClaimC30_InterventionIds ==
    [][LET new == interventions' IN
       /\ \A i, j \in DOMAIN new : new[i].id = new[j].id => i = j
       /\ custom_interventions' = new
       /\ Len(new) < Len(interventions) =>
             \E k \in DOMAIN interventions : new = RemoveAt(interventions, k)
       /\ Len(new) > Len(interventions) =>
             /\ Len(new) = Len(interventions) + 1
             /\ WithoutId(new, new[Len(new)].id) = interventions
       /\ (Len(new) = Len(interventions) /\ new # interventions) =>
             \E k \in DOMAIN new : \E key \in ParamKeys :
                /\ \A i \in DOMAIN new \ {k} : new[i] = interventions[i]
                /\ new[k].id = interventions[k].id
                /\ \A other \in ParamKeys \ {key} :
                      new[k].params[other] = interventions[k].params[other]]_vars

====
